---- MODULE Spec2Model ----
(***************************************************************************)
(* Foodgram backend (Django + DRF): the relational stores, the recipe      *)
(* write workflow of CreateRecipeSerializer, and the engagement toggles    *)
(* of RecipeViewSet / UserViewSet, as state machines over the database.    *)
(*                                                                         *)
(* A request is sent, handled by one action that models the whole handler  *)
(* (permission check, validation, every write it makes), and replied.      *)
(* SpecConc splits the favorite / shopping_cart handlers at their database *)
(* statements, which is the granularity at which requests interleave: the  *)
(* views run in autocommit mode (settings.py sets no ATOMIC_REQUESTS).     *)
(***************************************************************************)
EXTENDS Integers, Sequences, FiniteSets, TLC

\* ------------------------------------------------------------------ bounds
\* Recipe primary keys are 1..MaxRecipes (the auto-increment counter is capped).
MaxRecipes == 2
\* Longest "ingredients" list of a request payload.
MaxLen == 3
\* Longest "tags" list of a request payload.
MaxTagLen == 2

\* ----------------------------------------------------------------- catalog
\* The users that registered; Anonymous is the requester of a request without
\* a token. The variable `users` holds those whose row still exists.
Users == {"u1", "u2"}
Anonymous == "anon"
Requesters == Users \cup {Anonymous}
\* A user id that references no user.
NoUser == "nobody"

RecipePks == 1..MaxRecipes
\* pk 0 is never assigned by the auto-increment: a pk that references nothing.
RequestPks == 0..MaxRecipes

\* Ingredient rows. (name, measurement_unit) is unique, not name alone:
\* rows 1 and 3 share a name and differ in the unit. Id 0 references nothing.
Ingredients == {1, 2, 3}
IngredientName == (1 :> "sugar") @@ (2 :> "salt") @@ (3 :> "sugar")
IngredientUnit == (1 :> "g") @@ (2 :> "g") @@ (3 :> "kg")
Tags == {1, 2}

\* Scalar fields of Recipe that the serializer writes.
Fields == {"cooking_time", "image", "name", "text"}
MIN_COOKING_TIME == 1

VARIABLES
    recipes,        \* Recipe rows: pk -> [author, cooking_time, image, name, text]
    nextPk,         \* the next auto-increment pk of Recipe
    recipeTags,     \* Recipe.tags M2M rows: set of <<recipe pk, tag id>>
    amounts,        \* IngredientAmount rows in id order: [recipe, ingredient, amount]
    favorites,      \* Favorite rows: <<user, recipe>> -> number of rows
    carts,          \* Cart rows: <<user, recipe>> -> number of rows
    follows,        \* Follow rows: <<author, user>> -> number of rows
    users,          \* User rows: the ids of the registered users
    request,        \* the request being served (op = "none": no request)
    response,       \* its response (status 0: not answered yet)
    proc            \* SpecConc: per worker, the request in progress and its position

stores == <<recipes, nextPk, recipeTags, amounts, favorites, carts, follows, users>>
vars == <<recipes, nextPk, recipeTags, amounts, favorites, carts, follows, users,
          request, response, proc>>

\* --------------------------------------------------------- payload values
\* A JSON value given for "ingredients" or "tags":
\*   absent  the key is not in the body          (initial_data.get -> None)
\*   null    the key is there with value null    (initial_data.get -> None)
\*   falsy   a falsy non-iterable scalar, 0 or false
\*   other   a truthy value that is not a list, such as a non-empty string
\*   list    a JSON list, items in "items"
Absent == [kind |-> "absent", items |-> <<>>]
Null == [kind |-> "null", items |-> <<>>]
Falsy == [kind |-> "falsy", items |-> <<>>]
Other == [kind |-> "other", items |-> <<>>]
List(s) == [kind |-> "list", items |-> s]

\* The "amount" of an item of an "ingredients" list is a JSON number, counted
\* here in halves: Whole(1) is 1, Whole(1) + 1 is 1.5. Python's int() of it
\* drops the fraction.
Whole(n) == n + n
int(x) == x \div (Whole(1))

\* initial_data.get(field) is None
IsNone(v) == v.kind \in {"absent", "null"}
\* Python truthiness of initial_data.get(field)
Truthy(v) == v.kind = "other" \/ (v.kind = "list" /\ Len(v.items) > 0)

\* Scalar fields of a payload: field -> value, 0 standing for "not in the body"
\* for image, name and text; cooking_time is absent when it is -1.
NoScalars == [f \in Fields |-> IF f = "cooking_time" THEN -1 ELSE 0]
HasField(sc, f) == IF f = "cooking_time" THEN sc[f] # -1 ELSE sc[f] # 0

\* "author" of a payload: the id given for it, "" when the key is not in the
\* body
EmptyPayload == [scalars |-> NoScalars, ingredients |-> Absent, tags |-> Absent,
                 author |-> ""]

\* `not request.data`: the body holds no key at all
IsEmptyBodyNever(p) == FALSE
IsEmptyBody(p) ==
    /\ \A f \in Fields : ~HasField(p.scalars, f)
    /\ p.ingredients.kind = "absent"
    /\ p.tags.kind = "absent"
    /\ p.author = ""

\* --------------------------------------------------------- request/response
\* The query parameters of a recipe list: "" for a parameter that is not
\* given, else the choice "0" or "1" of BOOLEAN_CHOICES.
NoQuery == [is_favorited |-> "", is_in_shopping_cart |-> ""]
NoRequest == [op |-> "none", method |-> "", user |-> Anonymous, pk |-> 0,
              target |-> NoUser, payload |-> EmptyPayload, query |-> NoQuery]
EmptyShoppingList == [n \in {} |-> [amount |-> 0, units |-> ""]]
\* the rows of a recipe list: pk -> how many times the queryset yields it
NoResults == [pk \in {} |-> 0]
NoBody == [is_favorited |-> FALSE, is_in_shopping_cart |-> FALSE,
           shopping_list |-> EmptyShoppingList, results |-> NoResults]
\* status, the key of the error detail (or ""), and the body of a success
NoResponse == [status |-> 0, error |-> "", body |-> NoBody]
Respond(status) == [status |-> status, error |-> "", body |-> NoBody]
RespondBody(status, body) == [status |-> status, error |-> "", body |-> body]

Idle == request.op = "none"
Pending(op) == request.op = op /\ response.status = 0
Done == request.op # "none" /\ response.status # 0

\* ------------------------------------------------------- database primitives
\* Favorite / Cart / Follow stores count the rows of each key, so that a
\* duplicate row is a state the model can be in; the UniqueConstraint of the
\* table is what refuses it.
EmptyPairs(A, B) == [k \in A \X B |-> 0]

\* QuerySet.exists() of model.objects.filter(<key>)
ExistsNever(store, key) == FALSE
Exists(store, key) == key \in DOMAIN store /\ store[key] > 0

\* model.objects.create on Favorite / Cart: the INSERT is refused
\* (IntegrityError) when a row of the same (user, recipe) is already there.
InsertNoConstraint(store, key) ==
    [ok |-> TRUE, store |-> [store EXCEPT ![key] = @ + 1]]
InsertUnique(store, key) ==
    IF store[key] > 0
    THEN [ok |-> FALSE, store |-> store]
    ELSE [ok |-> TRUE, store |-> [store EXCEPT ![key] = @ + 1]]

\* Follow.objects.create: UniqueConstraint(author, user) and
\* CheckConstraint(author # user).
InsertFollow(store, author, user) ==
    IF author = user
    THEN [ok |-> FALSE, store |-> store]
    ELSE InsertUnique(store, <<author, user>>)

\* QuerySet.delete() of model.objects.filter(<key>): every matching row
DeleteRowsOfFirst(store, key) ==
    [k \in DOMAIN store |-> IF k[1] = key[1] THEN 0 ELSE store[k]]
DeleteRows(store, key) == [store EXCEPT ![key] = 0]

\* ------------------------------------------------ favorite / shopping_cart
\* RecipeViewSet._create_object on the store of `model` (Favorite or Cart)
CreateObjectNoExistsCheck(store, user, recipe_pk) ==
    IF recipe_pk \notin DOMAIN recipes
    THEN [status |-> 404, store |-> store]
    ELSE LET ins == InsertUnique(store, <<user, recipe_pk>>)
         IN  IF ins.ok
             THEN [status |-> 201, store |-> ins.store]
             ELSE [status |-> 500, store |-> store]
CreateObject(store, user, recipe_pk) ==
    IF Exists(store, <<user, recipe_pk>>)
    THEN [status |-> 400, store |-> store]
    ELSE IF recipe_pk \notin DOMAIN recipes
    THEN [status |-> 404, store |-> store]
    ELSE LET ins == InsertUnique(store, <<user, recipe_pk>>)
         IN  IF ins.ok
             THEN [status |-> 201, store |-> ins.store]
             ELSE [status |-> 500, store |-> store]

\* RecipeViewSet._delete_object
DeleteObject(store, user, recipe_pk) ==
    IF recipe_pk \notin DOMAIN recipes
    THEN [status |-> 404, store |-> store]
    ELSE IF ~Exists(store, <<user, recipe_pk>>)
    THEN [status |-> 400, store |-> store]
    ELSE [status |-> 204, store |-> DeleteRows(store, <<user, recipe_pk>>)]

\* RecipeViewSet._obj_operation, behind permission_classes=[IsAuthenticated]
ObjOperation(store, method, user, recipe_pk) ==
    IF user = Anonymous
    THEN [status |-> 401, store |-> store]
    ELSE IF method = "DELETE"
    THEN DeleteObject(store, user, recipe_pk)
    ELSE CreateObject(store, user, recipe_pk)

\* RecipeViewSet.favorite
HandleFavorite ==
    /\ Pending("favorite")
    /\ LET r == ObjOperation(favorites, request.method, request.user, request.pk)
       IN  /\ favorites' = r.store
           /\ response' = Respond(r.status)
    /\ UNCHANGED <<recipes, nextPk, recipeTags, amounts, carts, follows, users, request, proc>>

\* RecipeViewSet.shopping_cart
HandleShoppingCart ==
    /\ Pending("shopping_cart")
    /\ LET r == ObjOperation(carts, request.method, request.user, request.pk)
       IN  /\ carts' = r.store
           /\ response' = Respond(r.status)
    /\ UNCHANGED <<recipes, nextPk, recipeTags, amounts, favorites, follows, users, request, proc>>

\* ------------------------------------------------------------- subscribe
\* UserViewSet.subscribe, behind permission_classes=[IsAuthenticated];
\* `id` is the author's id of the URL.
SubscribeNoSelfCheck(store, method, user, id) ==
    IF user = Anonymous
    THEN [status |-> 401, store |-> store]
    ELSE IF id \notin users
    THEN [status |-> 404, store |-> store]
    ELSE IF method = "POST"
    THEN IF Exists(store, <<id, user>>)
         THEN [status |-> 400, store |-> store]
         ELSE LET ins == InsertFollow(store, id, user)
              IN  IF ins.ok
                  THEN [status |-> 201, store |-> ins.store]
                  ELSE [status |-> 500, store |-> store]
    ELSE IF Exists(store, <<id, user>>)
         THEN [status |-> 204, store |-> DeleteRows(store, <<id, user>>)]
         ELSE [status |-> 400, store |-> store]
Subscribe(store, method, user, id) ==
    IF user = Anonymous
    THEN [status |-> 401, store |-> store]
    ELSE IF id \notin users
    THEN [status |-> 404, store |-> store]
    ELSE IF user = id
    THEN [status |-> 400, store |-> store]
    ELSE IF method = "POST"
    THEN IF Exists(store, <<id, user>>)
         THEN [status |-> 400, store |-> store]
         ELSE LET ins == InsertFollow(store, id, user)
              IN  IF ins.ok
                  THEN [status |-> 201, store |-> ins.store]
                  ELSE [status |-> 500, store |-> store]
    ELSE IF Exists(store, <<id, user>>)
         THEN [status |-> 204, store |-> DeleteRows(store, <<id, user>>)]
         ELSE [status |-> 400, store |-> store]

HandleSubscribe ==
    /\ Pending("subscribe")
    /\ LET r == Subscribe(follows, request.method, request.user, request.target)
       IN  /\ follows' = r.store
           /\ response' = Respond(r.status)
    /\ UNCHANGED <<recipes, nextPk, recipeTags, amounts, favorites, carts, users, request, proc>>

\* ------------------------------------------------- computed flags (mixin)
\* CartFavoriteFlagsMixin.get_is_favorited
GetIsFavoritedAnyUser(user, pk) == \E u \in Users : Exists(favorites, <<u, pk>>)
GetIsFavorited(user, pk) ==
    IF user = Anonymous THEN FALSE ELSE Exists(favorites, <<user, pk>>)

\* CartFavoriteFlagsMixin.get_is_in_shopping_cart
GetIsInShoppingCart(user, pk) ==
    IF user = Anonymous THEN FALSE ELSE Exists(carts, <<user, pk>>)

\* The representation of a recipe under the Read and the Create serializer:
\* the two flags computed for the requester.
Representation(user, pk) ==
    [NoBody EXCEPT !.is_favorited = GetIsFavorited(user, pk),
                   !.is_in_shopping_cart = GetIsInShoppingCart(user, pk)]

\* GET /recipes/{pk}/ (ReadRecipeSerializer; a safe method needs no token)
HandleRetrieve ==
    /\ Pending("retrieve")
    /\ response' = IF request.pk \in DOMAIN recipes
                   THEN RespondBody(200, Representation(request.user, request.pk))
                   ELSE Respond(404)
    /\ UNCHANGED <<stores, request, proc>>

\* ------------------------------------------------ download_shopping_cart
RECURSIVE Repeat(_, _)
Repeat(x, n) == IF n = 0 THEN <<>> ELSE <<x>> \o Repeat(x, n - 1)

\* IngredientAmount.objects.filter(recipe__carts__user=user).values(...):
\* rows 1..i of IngredientAmount in Meta.ordering ('-id'), one copy per Cart
\* row of the user that the join matches.
RECURSIVE CartIngredients(_, _)
CartIngredients(user, i) ==
    IF i = 0
    THEN <<>>
    ELSE LET row == amounts[i]
             d == [amount |-> row.amount,
                   name |-> IngredientName[row.ingredient],
                   units |-> IngredientUnit[row.ingredient]]
         IN  Repeat(d, carts[<<user, row.recipe>>]) \o CartIngredients(user, i - 1)

\* The loop of download_shopping_cart over the queryset: result keyed by name
RECURSIVE Aggregate(_, _)
Aggregate(rows, result) ==
    IF rows = <<>>
    THEN result
    ELSE LET d == Head(rows)
         IN  Aggregate(
                 Tail(rows),
                 IF d.name \notin DOMAIN result
                 THEN result @@ (d.name :> [amount |-> d.amount, units |-> d.units])
                 ELSE [result EXCEPT ![d.name].amount = @ + d.amount])

\* RecipeViewSet.download_shopping_cart, behind IsAuthenticated. The body of
\* the attachment lists the entries of `result`.
DownloadShoppingCart(user) ==
    IF user = Anonymous
    THEN Respond(401)
    ELSE LET result == Aggregate(CartIngredients(user, Len(amounts)), EmptyShoppingList)
         IN  IF DOMAIN result = {}
             THEN Respond(400)
             ELSE RespondBody(200, [NoBody EXCEPT !.shopping_list = result])

HandleDownloadShoppingCart ==
    /\ Pending("download_shopping_cart")
    /\ response' = DownloadShoppingCart(request.user)
    /\ UNCHANGED <<stores, request, proc>>

\* ------------------------------------------------------ request life cycle
Send(req) ==
    /\ Idle
    /\ request' = req
    /\ response' = NoResponse
    /\ UNCHANGED <<stores, proc>>

Reply ==
    /\ Done
    /\ request' = NoRequest
    /\ response' = NoResponse
    /\ UNCHANGED <<stores, proc>>

Req(op, method, user, pk, target, payload) ==
    [op |-> op, method |-> method, user |-> user, pk |-> pk,
     target |-> target, payload |-> payload, query |-> NoQuery]

ToggleRequests ==
    {Req(op, m, u, pk, NoUser, EmptyPayload) :
        op \in {"favorite", "shopping_cart"}, m \in {"POST", "DELETE"},
        u \in Requesters, pk \in RequestPks}
SubscribeRequests ==
    {Req("subscribe", m, u, 0, a, EmptyPayload) :
        m \in {"POST", "DELETE"}, u \in Requesters, a \in Users \cup {NoUser}}
RetrieveRequests ==
    {Req("retrieve", "GET", u, pk, NoUser, EmptyPayload) :
        u \in Requesters, pk \in RequestPks}
DownloadRequests ==
    {Req("download_shopping_cart", "GET", u, 0, NoUser, EmptyPayload) :
        u \in Requesters}

\* ----------------------------------------------------------- initial data
NoProc == [w \in {} |-> 0]
Scalars(v) == [f \in Fields |-> v]
RecipeRow(author, v) ==
    [author |-> author, cooking_time |-> v, image |-> v, name |-> v, text |-> v]
AmountRow(pk, item) ==
    [recipe |-> pk, ingredient |-> item.id, amount |-> item.amount]
\* the rows of recipe pk for a list of (id, amount) pairs
RECURSIVE AmountRows(_, _)
AmountRows(pk, items) ==
    IF items = <<>>
    THEN <<>>
    ELSE <<AmountRow(pk, Head(items))>> \o AmountRows(pk, Tail(items))

\* Two published recipes, one per user: the state of the stores after
\* u1 and u2 each created a recipe.
TwoRecipes == (1 :> RecipeRow("u1", 1)) @@ (2 :> RecipeRow("u2", 1))

\* The engagement endpoints over two published recipes.
Init ==
    /\ recipes = TwoRecipes
    /\ nextPk = 3
    /\ recipeTags = {<<1, 1>>, <<2, 1>>, <<2, 2>>}
    /\ amounts = AmountRows(1, <<[id |-> 1, amount |-> 1]>>)
                 \o AmountRows(2, <<[id |-> 1, amount |-> 2], [id |-> 2, amount |-> 1]>>)
    /\ favorites = EmptyPairs(Users, RecipePks)
    /\ carts = EmptyPairs(Users, RecipePks)
    /\ follows = EmptyPairs(Users, Users)
    /\ users = Users
    /\ request = NoRequest
    /\ response = NoResponse
    /\ proc = NoProc

SendEngagement ==
    /\ Idle
    /\ \E req \in ToggleRequests \cup SubscribeRequests \cup RetrieveRequests : Send(req)

Next ==
    \/ SendEngagement
    \/ HandleFavorite
    \/ HandleShoppingCart
    \/ HandleSubscribe
    \/ HandleRetrieve
    \/ Reply

Spec == Init /\ [][Next]_vars

\* ------------------------------------------------- engagement: properties
IsToggle(op, method) ==
    /\ request.op = op
    /\ request.method = method
    /\ request.user \in Users
    /\ request.pk \in DOMAIN recipes

C4_AnonymousFlagsFalse ==
    /\ \A pk \in DOMAIN recipes :
          /\ ~Representation(Anonymous, pk).is_favorited
          /\ ~Representation(Anonymous, pk).is_in_shopping_cart
    /\ (Done /\ request.op = "retrieve" /\ request.user = Anonymous)
          => (~response.body.is_favorited /\ ~response.body.is_in_shopping_cart)

\* An anonymous requester has read a recipe that is a favorite of one user
\* and in the cart of one.
C4_Witness ==
    /\ Done
    /\ request.op = "retrieve"
    /\ request.user = Anonymous
    /\ response.status = 200
    /\ \E u \in Users : Exists(favorites, <<u, request.pk>>)
    /\ \E u \in Users : Exists(carts, <<u, request.pk>>)

\* C6: a subscribe POST or DELETE whose target is the requester is answered
\* 400 and changes no store, and no Follow row has author = user.
C6_NoSelfFollow ==
    /\ \A u \in Users : follows[<<u, u>>] = 0
    /\ [][/\ (Pending("subscribe") /\ request.user \in Users
                                   /\ request.target = request.user)
             => (response'.status = 400 /\ UNCHANGED stores)
          /\ \A u \in Users : follows'[<<u, u>>] = 0
         ]_vars

\* A user asked to follow themselves while following the other user.
C6_Witness ==
    /\ Done
    /\ request.op = "subscribe"
    /\ request.method = "POST"
    /\ request.user \in Users
    /\ request.target = request.user
    /\ response.status = 400
    /\ \E a \in Users : follows[<<a, request.user>>] = 1

\* ------------------------------------------------------ the shopping list
Items == [id : Ingredients, amount : 1..2]
DistinctIds(s) == \A i, j \in DOMAIN s : i # j => s[i].id # s[j].id
\* the ingredient lists of length 1..n that _validate_ingredients accepts
ValidLists(n) ==
    {s \in UNION {[1..k -> Items] : k \in 1..n} : DistinctIds(s)}

\* The shopping cart over two published recipes of any one or two
\* ingredients each.
InitCart ==
    /\ recipes = TwoRecipes
    /\ nextPk = 3
    /\ recipeTags = {<<1, 1>>, <<2, 1>>}
    /\ \E l1, l2 \in ValidLists(2) : amounts = AmountRows(1, l1) \o AmountRows(2, l2)
    /\ favorites = EmptyPairs(Users, RecipePks)
    /\ carts = EmptyPairs(Users, RecipePks)
    /\ follows = EmptyPairs(Users, Users)
    /\ users = Users
    /\ request = NoRequest
    /\ response = NoResponse
    /\ proc = NoProc

SendCart ==
    /\ Idle
    /\ \E req \in {r \in ToggleRequests : r.op = "shopping_cart"} \cup DownloadRequests :
          Send(req)

NextCart ==
    \/ SendCart
    \/ HandleShoppingCart
    \/ HandleDownloadShoppingCart
    \/ Reply

SpecCart == InitCart /\ [][NextCart]_vars

\* the sum of amount over rows 1..i of IngredientAmount whose ingredient is in
\* S and whose recipe is in the user's cart
RECURSIVE CartSum(_, _, _)
CartSum(user, S, i) ==
    IF i = 0
    THEN 0
    ELSE CartSum(user, S, i - 1)
         + (IF amounts[i].ingredient \in S /\ Exists(carts, <<user, amounts[i].recipe>>)
            THEN amounts[i].amount
            ELSE 0)

\* C5: in the answer of download_shopping_cart to user u, the amount reported
\* for an ingredient is the sum of amount over the IngredientAmount rows of
\* that ingredient whose recipe is in u's cart.
C5_AmountPerIngredient ==
    (Done /\ request.op = "download_shopping_cart" /\ response.status = 200)
    => \A i \in Ingredients :
          CartSum(request.user, {i}, Len(amounts)) > 0
          => /\ IngredientName[i] \in DOMAIN response.body.shopping_list
             /\ response.body.shopping_list[IngredientName[i]].amount
                  = CartSum(request.user, {i}, Len(amounts))

\* ------------------------------------------- concurrent favorite / cart
Workers == {"w1", "w2"}
\* pks the concurrent requests name: one published recipe and none
ConcPks == {0, 1}
IdleProc == [op |-> "none", method |-> "", user |-> Anonymous, pk |-> 0,
             pc |-> "idle", status |-> 0]
ConcRequests ==
    {[op |-> op, method |-> m, user |-> u, pk |-> pk, pc |-> "start", status |-> 0] :
        op \in {"favorite", "shopping_cart"}, m \in {"POST", "DELETE"},
        u \in Users, pk \in ConcPks}

StoreOf(op) == IF op = "favorite" THEN favorites ELSE carts
SetStore(op, s) ==
    IF op = "favorite"
    THEN favorites' = s /\ carts' = carts
    ELSE carts' = s /\ favorites' = favorites
Key(w) == <<proc[w].user, proc[w].pk>>
Goto(w, pc) == proc' = [proc EXCEPT ![w].pc = pc]
Finish(w, status) == proc' = [proc EXCEPT ![w].pc = "done", ![w].status = status]
Fixed == <<recipes, nextPk, recipeTags, amounts, follows, users, request, response>>

\* a worker takes a request (an authenticated favorite / shopping_cart call)
Begin(w) ==
    /\ proc[w].pc = "idle"
    /\ \E req \in ConcRequests : proc' = [proc EXCEPT ![w] = req]
    /\ UNCHANGED <<favorites, carts, Fixed>>

\* _create_object: obj.exists()
CreateExists(w) ==
    /\ proc[w].pc = "start" /\ proc[w].method = "POST"
    /\ IF Exists(StoreOf(proc[w].op), Key(w)) THEN Finish(w, 400) ELSE Goto(w, "get")
    /\ UNCHANGED <<favorites, carts, Fixed>>

\* _create_object: get_object_or_404(klass=Recipe, pk=recipe_pk)
CreateGet(w) ==
    /\ proc[w].pc = "get"
    /\ IF proc[w].pk \in DOMAIN recipes THEN Goto(w, "create") ELSE Finish(w, 404)
    /\ UNCHANGED <<favorites, carts, Fixed>>

\* _create_object: model.objects.create(recipe=recipe, user=user). The
\* IntegrityError of a refused INSERT is caught nowhere: the answer is 500.
CreateInsert(w) ==
    /\ proc[w].pc = "create"
    /\ LET ins == InsertUnique(StoreOf(proc[w].op), Key(w))
       IN  /\ SetStore(proc[w].op, ins.store)
           /\ Finish(w, IF ins.ok THEN 201 ELSE 500)
    /\ UNCHANGED Fixed

\* _delete_object: get_object_or_404(klass=Recipe, pk=recipe_pk)
DeleteGet(w) ==
    /\ proc[w].pc = "start" /\ proc[w].method = "DELETE"
    /\ IF proc[w].pk \in DOMAIN recipes THEN Goto(w, "exists") ELSE Finish(w, 404)
    /\ UNCHANGED <<favorites, carts, Fixed>>

\* _delete_object: obj.exists()
DeleteExists(w) ==
    /\ proc[w].pc = "exists"
    /\ IF Exists(StoreOf(proc[w].op), Key(w)) THEN Goto(w, "delete") ELSE Finish(w, 400)
    /\ UNCHANGED <<favorites, carts, Fixed>>

\* _delete_object: obj.delete()
DeleteDelete(w) ==
    /\ proc[w].pc = "delete"
    /\ SetStore(proc[w].op, DeleteRows(StoreOf(proc[w].op), Key(w)))
    /\ Finish(w, 204)
    /\ UNCHANGED Fixed

\* the response is sent
End(w) ==
    /\ proc[w].pc = "done"
    /\ proc' = [proc EXCEPT ![w] = IdleProc]
    /\ UNCHANGED <<favorites, carts, Fixed>>

InitConc ==
    /\ recipes = TwoRecipes
    /\ nextPk = 3
    /\ recipeTags = {<<1, 1>>, <<2, 1>>}
    /\ amounts = AmountRows(1, <<[id |-> 1, amount |-> 1]>>)
                 \o AmountRows(2, <<[id |-> 2, amount |-> 1]>>)
    /\ favorites = EmptyPairs(Users, RecipePks)
    /\ carts = EmptyPairs(Users, RecipePks)
    /\ follows = EmptyPairs(Users, Users)
    /\ users = Users
    /\ request = NoRequest
    /\ response = NoResponse
    /\ proc = [w \in Workers |-> IdleProc]

NextConc ==
    \E w \in Workers :
        \/ Begin(w)
        \/ CreateExists(w)
        \/ CreateGet(w)
        \/ CreateInsert(w)
        \/ DeleteGet(w)
        \/ DeleteExists(w)
        \/ DeleteDelete(w)
        \/ End(w)

SpecConc == InitConc /\ [][NextConc]_vars

SameCall(w1, w2) ==
    /\ proc[w1].op = proc[w2].op
    /\ proc[w1].user = proc[w2].user
    /\ proc[w1].pk = proc[w2].pk

\* C9: of two concurrent favorite POSTs of one user for one recipe that both
\* reach create(), one is answered 201, the other is answered with the
\* duplicate error 400, and one Favorite row results.
C9_LoserGetsDuplicateError ==
    \A w1, w2 \in Workers :
        ( /\ w1 # w2
          /\ SameCall(w1, w2)
          /\ proc[w1].op = "favorite"
          /\ proc[w1].method = "POST" /\ proc[w2].method = "POST"
          /\ proc[w1].pc = "done" /\ proc[w2].pc = "done"
          /\ proc[w1].status = 201 )
        => (proc[w2].status = 400 /\ favorites[Key(w1)] = 1)

\* C10: the Favorite store and the Cart store hold at most one row per
\* (user, recipe) pair, under every interleaving of the statements of
\* favorite / shopping_cart POST and DELETE requests.
C10_OneRowPerPair ==
    \A k \in Users \X RecipePks : favorites[k] <= 1 /\ carts[k] <= 1

\* Two POSTs of one pair both passed exists(); the table refused the second
\* INSERT and holds one row.
C10_Witness ==
    \E w1, w2 \in Workers :
        /\ w1 # w2
        /\ SameCall(w1, w2)
        /\ proc[w1].pc = "done" /\ proc[w1].status = 201
        /\ proc[w2].pc = "done" /\ proc[w2].status = 500
        /\ StoreOf(proc[w1].op)[Key(w1)] = 1

\* ------------------------------------------------------------ permissions
SAFE_METHODS == {"GET", "HEAD", "OPTIONS"}
ALLOWED_METHODS == {"DELETE", "PATCH", "POST"}

\* IsOwnerOrReadOnly.has_permission
HasPermissionAnyMethod(method, user) ==
    method \in SAFE_METHODS \/ user # Anonymous
HasPermission(method, user) ==
    method \in SAFE_METHODS \/ (method \in ALLOWED_METHODS /\ user # Anonymous)

\* IsOwnerOrReadOnly.has_object_permission
HasObjectPermissionAnyone(method, user, obj) == TRUE
HasObjectPermission(method, user, obj) ==
    method \in SAFE_METHODS \/ obj.author = user

\* a refused request: 401 without a token, 403 with one
Denied(user) == IF user = Anonymous THEN 401 ELSE 403

\* ------------------------------------------- CreateRecipeSerializer.validate
Ok == [status |-> 0, error |-> ""]
Err(status, key) == [status |-> status, error |-> key]

\* The fields the serializer validates itself, before validate(): on POST
\* each of cooking_time, image, name, text is required; cooking_time has
\* MinValueValidator(MIN_COOKING_TIME).
FieldErrors(method, sc) ==
    \/ method # "PATCH" /\ \E f \in Fields : ~HasField(sc, f)
    \/ HasField(sc, "cooking_time") /\ sc["cooking_time"] < MIN_COOKING_TIME

\* The loop of _validate_ingredients over the items, `used` the ids of
\* used_ingredients.
RECURSIVE ValidateItemsNoDuplicateCheck(_, _)
ValidateItemsNoDuplicateCheck(items, used) ==
    IF items = <<>>
    THEN Ok
    ELSE LET item == Head(items)
         IN  IF item.id \notin Ingredients
             THEN Err(404, "detail")
             ELSE IF int(item.amount) < 1
             THEN Err(400, "ingredients")
             ELSE ValidateItemsNoDuplicateCheck(Tail(items), used \cup {item.id})
RECURSIVE ValidateItemsNoAmountCheck(_, _)
ValidateItemsNoAmountCheck(items, used) ==
    IF items = <<>>
    THEN Ok
    ELSE LET item == Head(items)
         IN  IF item.id \notin Ingredients
             THEN Err(404, "detail")
             ELSE IF item.id \in used
             THEN Err(400, "ingredients")
             ELSE ValidateItemsNoAmountCheck(Tail(items), used \cup {item.id})
RECURSIVE ValidateItemsAmountFirst(_, _)
ValidateItemsAmountFirst(items, used) ==
    IF items = <<>>
    THEN Ok
    ELSE LET item == Head(items)
         IN  IF int(item.amount) < 1
             THEN Err(400, "ingredients")
             ELSE IF item.id \notin Ingredients
             THEN Err(404, "detail")
             ELSE IF item.id \in used
             THEN Err(400, "ingredients")
             ELSE ValidateItemsAmountFirst(Tail(items), used \cup {item.id})
RECURSIVE ValidateItems(_, _)
ValidateItems(items, used) ==
    IF items = <<>>
    THEN Ok
    ELSE LET item == Head(items)
         IN  IF item.id \notin Ingredients
             THEN Err(404, "detail")
             ELSE IF item.id \in used
             THEN Err(400, "ingredients")
             ELSE IF int(item.amount) < 1
             THEN Err(400, "ingredients")
             ELSE ValidateItems(Tail(items), used \cup {item.id})

\* CreateRecipeSerializer._validate_ingredients
ValidateIngredients(v) ==
    IF v.kind # "list"
    THEN Err(400, "ingredients")
    ELSE IF Len(v.items) = 0
    THEN Err(400, "")
    ELSE ValidateItems(v.items, {})

\* The loop of _validate_tags over the ids, `used` the ids of used_tags.
RECURSIVE ValidateTagIds(_, _)
ValidateTagIds(ids, used) ==
    IF ids = <<>>
    THEN Ok
    ELSE IF Head(ids) \notin Tags
    THEN Err(404, "detail")
    ELSE IF Head(ids) \in used
    THEN Err(400, "tag")
    ELSE ValidateTagIds(Tail(ids), used \cup {Head(ids)})

\* CreateRecipeSerializer._validate_tags
ValidateTags(v) ==
    IF v.kind # "list"
    THEN Err(400, "tags")
    ELSE IF Len(v.items) = 0
    THEN Err(400, "tags")
    ELSE ValidateTagIds(v.items, {})

\* CreateRecipeSerializer.validate
ValidateNoRequiredLists(method, p) ==
    IF IsEmptyBody(p)
    THEN Err(400, "errors")
    ELSE LET vi == IF Truthy(p.ingredients) THEN ValidateIngredients(p.ingredients) ELSE Ok
         IN  IF vi.status # 0
             THEN vi
             ELSE IF Truthy(p.tags) THEN ValidateTags(p.tags) ELSE Ok
Validate(method, p) ==
    IF IsEmptyBody(p)
    THEN Err(400, "errors")
    ELSE IF method = "POST" /\ IsNone(p.tags)
    THEN Err(400, "tags")
    ELSE IF method = "POST" /\ IsNone(p.ingredients)
    THEN Err(400, "ingredients")
    ELSE LET vi == IF Truthy(p.ingredients) THEN ValidateIngredients(p.ingredients) ELSE Ok
         IN  IF vi.status # 0
             THEN vi
             ELSE IF Truthy(p.tags) THEN ValidateTags(p.tags) ELSE Ok

\* ModelSerializer.is_valid: the fields, then validate()
IsValid(method, p) ==
    IF FieldErrors(method, p.scalars) THEN Err(400, "field") ELSE Validate(method, p)

\* ------------------------------------------------- recipe rows and relations
\* the three tables a recipe write touches
Db == [recipes |-> recipes, recipeTags |-> recipeTags, amounts |-> amounts]

\* IngredientAmount.objects.bulk_create: one INSERT, refused (IntegrityError)
\* when two rows would share (ingredient, recipe)
BulkCreate(store, rows) ==
    LET all == store \o rows
    IN  IF \E i, j \in DOMAIN all :
              /\ i # j
              /\ j > Len(store)
              /\ all[i].recipe = all[j].recipe
              /\ all[i].ingredient = all[j].ingredient
        THEN [ok |-> FALSE, store |-> store]
        ELSE [ok |-> TRUE, store |-> all]

\* IngredientAmount.objects.filter(recipe=obj).delete()
DeleteAmountsOfAll(store, pk) == <<>>
DeleteAmounts(store, pk) == SelectSeq(store, LAMBDA r : r.recipe # pk)

\* obj.tags.clear()
ClearTags(store, pk) == {t \in store : t[1] # pk}
\* obj.tags.set(tags) for a list of ids
SetTags(store, pk, ids) ==
    ClearTags(store, pk) \cup {<<pk, ids[i]>> : i \in DOMAIN ids}

\* A run of writes: the tables as the run left them, and whether it raised.
Ran(db) == [failed |-> FALSE, db |-> db]
Raised(db) == [failed |-> TRUE, db |-> db]

\* the items as create_ingredient_amount reads them: int(ingrd['id']) and
\* int(ingrd['amount'])
Parsed(items) ==
    [i \in DOMAIN items |-> [id |-> items[i].id, amount |-> int(items[i].amount)]]

\* CreateRecipeSerializer.create_ingredient_amount on tables db: iterating a
\* value that is no list raises TypeError
CreateIngredientAmount(db, objs, pk) ==
    IF objs.kind # "list"
    THEN Raised(db)
    ELSE LET ins == BulkCreate(db.amounts, AmountRows(pk, Parsed(objs.items)))
         IN  IF ins.ok THEN Ran([db EXCEPT !.amounts = ins.store]) ELSE Raised(db)

\* validated_data['author']: the field is read-only, so the payload's value
\* is dropped, and validate() puts request.user there
AuthorFromPayload(user, p) == IF p.author = "" THEN user ELSE p.author
ValidatedAuthor(user, p) == user

\* the body of CreateRecipeSerializer.create, statement by statement
CreateRun(user, p) ==
    LET pk == nextPk
        row == [author |-> ValidatedAuthor(user, p), cooking_time |-> p.scalars["cooking_time"],
                image |-> p.scalars["image"], name |-> p.scalars["name"],
                text |-> p.scalars["text"]]
        db1 == [Db EXCEPT !.recipes = recipes @@ (pk :> row)]
    IN  IF p.tags.kind # "list"
        THEN Raised(db1)
        ELSE CreateIngredientAmount(
                 [db1 EXCEPT !.recipeTags = SetTags(recipeTags, pk, p.tags.items)],
                 p.ingredients, pk)

\* @transaction.atomic: a run that raised leaves the tables as they were
NoTransaction(before, run) == run
TransactionAtomic(before, run) ==
    IF run.failed THEN Raised(before) ELSE run

\* CreateRecipeSerializer.create
Create(user, p) == TransactionAtomic(Db, CreateRun(user, p))

\* CreateRecipeSerializer.update, statement by statement; no transaction
\* surrounds it, and each statement commits on its own
Update(pk, p) ==
    LET step1 == IF IsNone(p.ingredients)
                 THEN Ran(Db)
                 ELSE CreateIngredientAmount(
                          [Db EXCEPT !.amounts = DeleteAmounts(amounts, pk)],
                          p.ingredients, pk)
        db1 == step1.db
        step2 == IF IsNone(p.tags)
                 THEN Ran(db1)
                 ELSE IF p.tags.kind # "list"
                 THEN Raised([db1 EXCEPT !.recipeTags = ClearTags(recipeTags, pk)])
                 ELSE Ran([db1 EXCEPT !.recipeTags = SetTags(recipeTags, pk, p.tags.items)])
        db2 == step2.db
        obj == recipes[pk]
        saved == [f \in DOMAIN obj |->
                    IF f \in Fields /\ HasField(p.scalars, f) THEN p.scalars[f] ELSE obj[f]]
    IN  IF step1.failed
        THEN step1
        ELSE IF step2.failed
        THEN step2
        ELSE Ran([db2 EXCEPT !.recipes = [recipes EXCEPT ![pk] = saved]])

SetDb(db) ==
    /\ recipes' = db.recipes
    /\ recipeTags' = db.recipeTags
    /\ amounts' = db.amounts

\* POST /recipes/ : RecipeViewSet (ModelViewSet.create) with
\* CreateRecipeSerializer. The pk drawn from the sequence stays drawn when
\* the transaction rolls back.
HandleCreate ==
    /\ Pending("create")
    /\ LET u == request.user
           p == request.payload
           v == IsValid("POST", p)
           run == Create(u, p)
       IN  IF ~HasPermission("POST", u)
           THEN response' = Respond(Denied(u)) /\ UNCHANGED <<recipes, recipeTags, amounts, nextPk>>
           ELSE IF v.status # 0
           THEN response' = [Respond(v.status) EXCEPT !.error = v.error]
                /\ UNCHANGED <<recipes, recipeTags, amounts, nextPk>>
           ELSE /\ SetDb(run.db)
                /\ nextPk' = nextPk + 1
                /\ response' = IF run.failed
                               THEN Respond(500)
                               ELSE RespondBody(201, Representation(u, nextPk))
    /\ UNCHANGED <<favorites, carts, follows, users, request, proc>>

\* PATCH /recipes/{pk}/ : RecipeViewSet (ModelViewSet.partial_update) with
\* CreateRecipeSerializer
HandleUpdate ==
    /\ Pending("update")
    /\ LET u == request.user
           p == request.payload
           m == request.method
           v == IsValid(m, p)
           run == Update(request.pk, p)
       IN  IF ~HasPermission(m, u)
           THEN response' = Respond(Denied(u)) /\ UNCHANGED <<recipes, recipeTags, amounts>>
           ELSE IF request.pk \notin DOMAIN recipes
           THEN response' = Respond(404) /\ UNCHANGED <<recipes, recipeTags, amounts>>
           ELSE IF ~HasObjectPermission(m, u, recipes[request.pk])
           THEN response' = Respond(Denied(u)) /\ UNCHANGED <<recipes, recipeTags, amounts>>
           ELSE IF v.status # 0
           THEN response' = [Respond(v.status) EXCEPT !.error = v.error]
                /\ UNCHANGED <<recipes, recipeTags, amounts>>
           ELSE /\ SetDb(run.db)
                /\ response' = IF run.failed
                               THEN Respond(500)
                               ELSE RespondBody(200, Representation(u, request.pk))
    /\ UNCHANGED <<nextPk, favorites, carts, follows, users, request, proc>>

\* ------------------------------------------------- recipe write requests
\* Items of an "ingredients" list: id 0 references no ingredient, amount 0
\* is below the minimum, and so is 0.5; 1.5 is above it and is no integer.
PayloadItems ==
    [id : {0, 1, 2}, amount : {Whole(0), Whole(1)}]
    \cup {[id |-> 2, amount |-> Whole(0) + 1], [id |-> 1, amount |-> Whole(1) + 1]}
ItemLists(n) == UNION {[1..k -> PayloadItems] : k \in 0..n}
IngredientValues ==
    {Absent, Null, Falsy, Other} \cup {List(l) : l \in ItemLists(MaxLen)}
\* "tags" lists: id 0 references no tag
TagLists(n) == UNION {[1..k -> {0, 1, 2}] : k \in 0..n}
TagValues ==
    {Absent, Null, Falsy, Other} \cup {List(l) : l \in TagLists(MaxTagLen)}

SimpleIngredients ==
    {Absent,
     List(<<[id |-> 1, amount |-> Whole(2)]>>),
     List(<<[id |-> 2, amount |-> Whole(1)], [id |-> 1, amount |-> Whole(2)]>>)}
SimpleTags == {Absent, List(<<1>>), List(<<2, 1>>)}
ScalarValues ==
    {NoScalars, Scalars(1), Scalars(2),
     [Scalars(1) EXCEPT !["cooking_time"] = 0],
     [NoScalars EXCEPT !["name"] = 2],
     [Scalars(1) EXCEPT !["image"] = 0]}

Payload(sc, ingredients, tags) ==
    [scalars |-> sc, ingredients |-> ingredients, tags |-> tags, author |-> ""]
WithAuthor(p, a) == [p EXCEPT !.author = a]

\* Bodies that vary one part at a time: every "ingredients" value with one
\* "tags" value, every "tags" value with five "ingredients" values, every
\* choice of scalar fields with simple lists.
RecipePayloads(sc, tags) ==
    {Payload(sc, i, tags) : i \in IngredientValues}
    \cup {Payload(sc, i, t) : i \in SimpleIngredients \cup {Falsy, List(<<>>)},
                              t \in TagValues}
ScalarPayloads ==
    {Payload(sc, i, t) : sc \in ScalarValues, i \in SimpleIngredients, t \in SimpleTags}
FullPayload ==
    Payload(Scalars(2), List(<<[id |-> 2, amount |-> Whole(1)]>>), List(<<2>>))

RecipeRequests ==
    \* u1 publishes and edits the recipe of pk 2
    {Req("create", "POST", "u1", 0, NoUser, p) :
        p \in RecipePayloads(Scalars(1), List(<<1>>)) \cup ScalarPayloads}
    \cup {Req("update", "PATCH", "u1", 2, NoUser, p) :
        p \in RecipePayloads(NoScalars, Absent) \cup ScalarPayloads}
    \* anyone sends a complete body anywhere
    \cup {Req("create", "POST", u, 0, NoUser, FullPayload) : u \in Requesters}
    \cup {Req("update", "PATCH", u, pk, NoUser, FullPayload) :
        u \in Requesters, pk \in RequestPks}

\* One recipe published by u2; the next recipe gets pk 2.
InitRecipe ==
    /\ recipes = (1 :> RecipeRow("u2", 1))
    /\ nextPk = 2
    /\ recipeTags = {<<1, 1>>}
    /\ amounts = AmountRows(1, <<[id |-> 1, amount |-> 1]>>)
    /\ favorites = EmptyPairs(Users, RecipePks)
    /\ carts = EmptyPairs(Users, RecipePks)
    /\ follows = EmptyPairs(Users, Users)
    /\ users = Users
    /\ request = NoRequest
    /\ response = NoResponse
    /\ proc = NoProc

\* the pk sequence is capped at MaxRecipes
SendRecipe ==
    /\ Idle
    /\ \E req \in RecipeRequests :
          /\ req.op = "create" => nextPk <= MaxRecipes
          /\ Send(req)

NextRecipe ==
    \/ SendRecipe
    \/ HandleCreate
    \/ HandleUpdate
    \/ Reply

SpecRecipe == InitRecipe /\ [][NextRecipe]_vars

\* ----------------------------------------------- recipe writes: properties
\* the request is one the serializer gets to validate
ReachesSerializer ==
    /\ request.user \in Users
    /\ \/ Pending("create")
       \/ /\ Pending("update")
          /\ request.pk \in DOMAIN recipes
          /\ recipes[request.pk].author = request.user

IsList(v) == v.kind = "list"
\* positions j of a list whose id is an existing ingredient named earlier too
RepeatPositions(items) ==
    {j \in DOMAIN items :
        /\ items[j].id \in Ingredients
        /\ \E i \in 1..(j - 1) : items[i].id = items[j].id}
\* positions j of a list whose amount is below 1
BadAmountPositions(items) == {j \in DOMAIN items : items[j].amount < Whole(1)}
\* every entry before position j, and with `upto` the one at j, names an
\* existing ingredient
AllExistBefore(items, j, upto) ==
    \A k \in DOMAIN items :
        (k < j \/ (upto /\ k = j)) => items[k].id \in Ingredients
Min(S) == CHOOSE x \in S : \A y \in S : x <= y

TagsOf(store, pk) == {t[2] : t \in {x \in store : x[1] = pk}}
AmountsOf(store, pk) == SelectSeq(store, LAMBDA r : r.recipe = pk)

\* C7: a create ends either with the recipe row, its tag rows and its amount
\* rows from the payload all written, or with none of them written.
C7_CreateAllOrNothing ==
    [][Pending("create")
       => \/ /\ response'.status = 201
             /\ nextPk \notin DOMAIN recipes
             /\ nextPk \in DOMAIN recipes'
             /\ TagsOf(recipeTags', nextPk)
                  = {request.payload.tags.items[i] : i \in DOMAIN request.payload.tags.items}
             /\ AmountsOf(amounts', nextPk)
                  = AmountRows(nextPk, Parsed(request.payload.ingredients.items))
             /\ \A pk \in DOMAIN recipes :
                   /\ pk \in DOMAIN recipes' /\ recipes'[pk] = recipes[pk]
                   /\ TagsOf(recipeTags', pk) = TagsOf(recipeTags, pk)
                   /\ AmountsOf(amounts', pk) = AmountsOf(amounts, pk)
          \/ /\ response'.status # 201
             /\ UNCHANGED <<recipes, recipeTags, amounts>>
      ]_vars

\* A create raised at its last write (an "ingredients" value that cannot be
\* iterated) after the recipe row and the tag rows were written; none is there.
C7_Witness ==
    /\ Done
    /\ request.op = "create"
    /\ request.payload.ingredients.kind = "falsy"
    /\ IsList(request.payload.tags)
    /\ Len(request.payload.tags.items) > 0
    /\ response.status = 500
    /\ nextPk - 1 \notin DOMAIN recipes
    /\ TagsOf(recipeTags, nextPk - 1) = {}

\* C8: an update that does not succeed leaves the recipe's amount rows, tags
\* and fields as they were before the request.
C8_UpdateAtomic ==
    [][(Pending("update") /\ response'.status # 200)
       => UNCHANGED <<recipes, recipeTags, amounts>>
      ]_vars

\* ------------------------------------------------------ deletes and cascades
\* every table with a foreign key to Recipe or User, and the two themselves
Tables == [recipes |-> recipes, recipeTags |-> recipeTags, amounts |-> amounts,
           favorites |-> favorites, carts |-> carts, follows |-> follows,
           users |-> users]

Restrict(f, S) == [x \in S |-> f[x]]

\* Recipe rows pks deleted: on_delete=CASCADE of Cart.recipe, Favorite.recipe
\* and IngredientAmount.recipe, and the rows of the Recipe.tags relation
DeleteRecipesNoCascade(t, pks) ==
    [t EXCEPT !.recipes = Restrict(@, DOMAIN @ \ pks)]
DeleteRecipes(t, pks) ==
    [t EXCEPT !.recipes = Restrict(@, DOMAIN @ \ pks),
              !.recipeTags = {x \in @ : x[1] \notin pks},
              !.amounts = SelectSeq(@, LAMBDA r : r.recipe \notin pks),
              !.favorites = [k \in DOMAIN @ |-> IF k[2] \in pks THEN 0 ELSE @[k]],
              !.carts = [k \in DOMAIN @ |-> IF k[2] \in pks THEN 0 ELSE @[k]]]

\* User row u deleted: on_delete=CASCADE of Recipe.author (and what hangs on
\* those recipes), Cart.user, Favorite.user, Follow.author and Follow.user
DeleteUser(t, u) ==
    LET t1 == DeleteRecipes(t, {pk \in DOMAIN t.recipes : t.recipes[pk].author = u})
    IN  [t1 EXCEPT !.users = @ \ {u},
                   !.favorites = [k \in DOMAIN @ |-> IF k[1] = u THEN 0 ELSE @[k]],
                   !.carts = [k \in DOMAIN @ |-> IF k[1] = u THEN 0 ELSE @[k]],
                   !.follows = [k \in DOMAIN @ |->
                                   IF k[1] = u \/ k[2] = u THEN 0 ELSE @[k]]]

SetTables(t) ==
    /\ recipes' = t.recipes
    /\ recipeTags' = t.recipeTags
    /\ amounts' = t.amounts
    /\ favorites' = t.favorites
    /\ carts' = t.carts
    /\ follows' = t.follows
    /\ users' = t.users

\* DELETE /recipes/{pk}/ : RecipeViewSet (ModelViewSet.destroy) behind
\* IsOwnerOrReadOnly
HandleDestroy ==
    /\ Pending("destroy")
    /\ LET u == request.user
           m == request.method
       IN  IF ~HasPermission(m, u)
           THEN response' = Respond(Denied(u)) /\ UNCHANGED stores
           ELSE IF request.pk \notin DOMAIN recipes
           THEN response' = Respond(404) /\ UNCHANGED stores
           ELSE IF ~HasObjectPermission(m, u, recipes[request.pk])
           THEN response' = Respond(Denied(u)) /\ UNCHANGED stores
           ELSE /\ SetTables(DeleteRecipes(Tables, {request.pk}))
                /\ response' = Respond(204)
                /\ UNCHANGED nextPk
    /\ UNCHANGED <<request, proc>>

\* The admin site deletes a user (UserAdmin, delete_selected).
AdminDeleteUser ==
    /\ Idle
    /\ \E u \in users : SetTables(DeleteUser(Tables, u))
    /\ UNCHANGED <<nextPk, request, response, proc>>

DestroyRequests ==
    {Req("destroy", "DELETE", u, pk, NoUser, EmptyPayload) :
        u \in Requesters, pk \in RequestPks}

\* a token is deleted with its user: the requester is registered or anonymous
SendDelete ==
    /\ Idle
    /\ \E req \in ToggleRequests \cup DestroyRequests \cup DownloadRequests
                  \cup RetrieveRequests
                  \cup {r \in SubscribeRequests : r.method = "POST"} :
          /\ req.user \in users \cup {Anonymous}
          /\ Send(req)

NextDelete ==
    \/ SendDelete
    \/ HandleFavorite
    \/ HandleShoppingCart
    \/ HandleSubscribe
    \/ HandleDownloadShoppingCart
    \/ HandleRetrieve
    \/ HandleDestroy
    \/ AdminDeleteUser
    \/ Reply

\* Two published recipes, their favorites, carts and subscriptions, and the
\* deletes of recipes and users.
SpecDelete == Init /\ [][NextDelete]_vars

\* C11: no Cart, Favorite or IngredientAmount row references a recipe or a
\* user that does not exist, and every entry of a shopping list comes from an
\* IngredientAmount row of an existing recipe in the requester's cart.
C11_NoDanglingRows ==
    /\ \A k \in DOMAIN favorites :
          favorites[k] > 0 => (k[1] \in users /\ k[2] \in DOMAIN recipes)
    /\ \A k \in DOMAIN carts :
          carts[k] > 0 => (k[1] \in users /\ k[2] \in DOMAIN recipes)
    /\ \A i \in DOMAIN amounts : amounts[i].recipe \in DOMAIN recipes
    /\ (Done /\ request.op = "download_shopping_cart" /\ response.status = 200)
          => \A n \in DOMAIN response.body.shopping_list :
                \E i \in DOMAIN amounts :
                    /\ IngredientName[amounts[i].ingredient] = n
                    /\ amounts[i].recipe \in DOMAIN recipes
                    /\ Exists(carts, <<request.user, amounts[i].recipe>>)

\* A user downloads a shopping list after a recipe that was in their cart was
\* deleted; another recipe is still in the cart.
C11_Witness ==
    /\ Done
    /\ request.op = "download_shopping_cart"
    /\ response.status = 200
    /\ \E pk \in RecipePks : pk \notin DOMAIN recipes
    /\ users = Users

\* ------------------------------------------------ recipe writes: invariants
\* C12: after any sequence of recipe create and update requests the
\* IngredientAmount store has at most one row per (recipe, ingredient) pair
\* and every row has amount >= 1.
C12_AmountRowsWellFormed ==
    /\ \A i, j \in DOMAIN amounts :
          (i # j /\ amounts[i].recipe = amounts[j].recipe)
          => amounts[i].ingredient # amounts[j].ingredient
    /\ \A i \in DOMAIN amounts : amounts[i].amount >= 1

\* An update replaced the rows of a recipe by two rows of its payload, while
\* another recipe has rows of its own.
C12_Witness ==
    /\ Done
    /\ request.op = "update"
    /\ response.status = 200
    /\ IsList(request.payload.ingredients)
    /\ Len(request.payload.ingredients.items) = 2
    /\ AmountsOf(amounts, request.pk) = AmountRows(request.pk, Parsed(request.payload.ingredients.items))
    /\ \E i \in DOMAIN amounts : amounts[i].recipe # request.pk

\* ----------------------------------------------- recipe writes: error cases
\* a create by a registered user that names no "tags" or no "ingredients"
\* (the key is missing or its value is null)
CreateWithoutList ==
    /\ Pending("create")
    /\ request.user \in Users
    /\ (IsNone(request.payload.tags) \/ IsNone(request.payload.ingredients))
FirstMissingList(p) == IF IsNone(p.tags) THEN "tags" ELSE "ingredients"

MissingItemPositions(items) == {j \in DOMAIN items : items[j].id \notin Ingredients}
MissingTagPositions(ids) == {j \in DOMAIN ids : ids[j] \notin Tags}
\* the entries before position j exist, are pairwise distinct and have
\* amount >= 1
ValidItemsBefore(items, j) ==
    \A k \in DOMAIN items :
        k < j => /\ items[k].id \in Ingredients
                 /\ items[k].amount >= Whole(1)
                 /\ \A i \in 1..(k - 1) : items[i].id # items[k].id
\* the tag ids before position j exist and are pairwise distinct
ValidTagsBefore(ids, j) ==
    \A k \in DOMAIN ids :
        k < j => /\ ids[k] \in Tags
                 /\ \A i \in 1..(k - 1) : ids[i] # ids[k]

\* the payload names an ingredient or a tag that does not exist
NamesMissingId(p) ==
    \/ IsList(p.ingredients) /\ MissingItemPositions(p.ingredients.items) # {}
    \/ IsList(p.tags) /\ MissingTagPositions(p.tags.items) # {}

\* the missing id is the first thing wrong with the request: the scalar
\* fields are valid, a create gives both lists, and either the entries before
\* the first missing ingredient are valid, or the "ingredients" value is
\* empty, not given or wholly valid and the ids before the first missing tag
\* are valid
MissingIdComesFirst(method, p) ==
    /\ ~FieldErrors(method, p.scalars)
    /\ method = "POST" => (~IsNone(p.tags) /\ ~IsNone(p.ingredients))
    /\ \/ /\ IsList(p.ingredients)
          /\ MissingItemPositions(p.ingredients.items) # {}
          /\ ValidItemsBefore(p.ingredients.items, Min(MissingItemPositions(p.ingredients.items)))
       \/ /\ \/ ~Truthy(p.ingredients)
             \/ /\ IsList(p.ingredients)
                /\ ValidItemsBefore(p.ingredients.items, Len(p.ingredients.items) + 1)
          /\ IsList(p.tags)
          /\ MissingTagPositions(p.tags.items) # {}
          /\ ValidTagsBefore(p.tags.items, Min(MissingTagPositions(p.tags.items)))

PairsOfItems(items) == {<<items[i].id, items[i].amount>> : i \in DOMAIN items}
PairsOfRows(store, pk) ==
    {<<r.ingredient, Whole(r.amount)>> : r \in {store[i] : i \in {j \in DOMAIN store : store[j].recipe = pk}}}
IdsOf(ids) == {ids[i] : i \in DOMAIN ids}

\* the rows of recipe pk after the request are those of the payload
RowsAreThePayload(pk) ==
    /\ ~IsNone(request.payload.ingredients)
          => /\ IsList(request.payload.ingredients)
             /\ PairsOfRows(amounts', pk) = PairsOfItems(request.payload.ingredients.items)
             /\ Len(AmountsOf(amounts', pk)) = Len(request.payload.ingredients.items)
    /\ ~IsNone(request.payload.tags)
          => /\ IsList(request.payload.tags)
             /\ TagsOf(recipeTags', pk) = IdsOf(request.payload.tags.items)

\* C15 as stated: after a successful update whose payload gives "ingredients", the
\* recipe's IngredientAmount rows are the (id, amount) pairs of the payload,
\* one row per pair and no other row; after one whose payload gives "tags",
\* its tag set is the payload's tag ids; and so after a successful create.
C15_RowsAreThePayload ==
    [][/\ (Pending("update") /\ response'.status = 200) => RowsAreThePayload(request.pk)
       /\ (Pending("create") /\ response'.status = 201) => RowsAreThePayload(nextPk)
      ]_vars

\* C16: a partial update leaves untouched what its payload does not give:
\* without "ingredients" the recipe's IngredientAmount rows are unchanged,
\* without "tags" its tag set is unchanged, each of name, text, image and
\* cooking_time that is not given keeps its value, and no other recipe's row,
\* tags or amount rows change.
C16_UpdateFrame ==
    [][Pending("update")
       => LET p == request.payload
              pk == request.pk
          IN  /\ DOMAIN recipes' = DOMAIN recipes
              /\ pk \in DOMAIN recipes
                    => /\ IsNone(p.ingredients)
                             => AmountsOf(amounts', pk) = AmountsOf(amounts, pk)
                       /\ IsNone(p.tags)
                             => TagsOf(recipeTags', pk) = TagsOf(recipeTags, pk)
                       /\ \A f \in Fields :
                             ~HasField(p.scalars, f) => recipes'[pk][f] = recipes[pk][f]
                       /\ recipes'[pk].author = recipes[pk].author
              /\ \A other \in DOMAIN recipes \ {pk} :
                    /\ recipes'[other] = recipes[other]
                    /\ TagsOf(recipeTags', other) = TagsOf(recipeTags, other)
                    /\ AmountsOf(amounts', other) = AmountsOf(amounts, other)
              /\ UNCHANGED <<nextPk, favorites, carts, follows, users>>
      ]_vars

\* An update that gave "tags" and a name, and neither "ingredients" nor the
\* other fields, succeeded on a recipe that has amount rows.
C16_Witness ==
    /\ Done
    /\ request.op = "update"
    /\ response.status = 200
    /\ request.payload.ingredients.kind = "absent"
    /\ IsList(request.payload.tags)
    /\ HasField(request.payload.scalars, "name")
    /\ ~HasField(request.payload.scalars, "text")
    /\ recipes[request.pk].name = request.payload.scalars["name"]
    /\ recipes[request.pk].text # recipes[request.pk].name
    /\ AmountsOf(amounts, request.pk) # <<>>
    /\ TagsOf(recipeTags, request.pk) = IdsOf(request.payload.tags.items)

\* ------------------------------------------------ permissions on recipes
\* Every requester reads, creates, edits (PATCH and PUT) and deletes, on
\* every pk.
PermPayloads ==
    {FullPayload, Payload([NoScalars EXCEPT !["name"] = 2], Absent, List(<<1>>)),
     WithAuthor(EmptyPayload, "u1"), WithAuthor(FullPayload, "u2")}
PermRequests ==
    {Req("create", "POST", u, 0, NoUser, WithAuthor(FullPayload, a)) :
        u \in Requesters, a \in {""} \cup Users \cup {NoUser}}
    \cup {Req("update", m, u, pk, NoUser, p) :
             m \in {"PATCH", "PUT"}, u \in Requesters, pk \in RequestPks, p \in PermPayloads}
    \cup DestroyRequests
    \cup RetrieveRequests

SendPerm ==
    /\ Idle
    /\ \E req \in PermRequests :
          /\ req.op = "create" => nextPk <= MaxRecipes
          /\ Send(req)

NextPerm ==
    \/ SendPerm
    \/ HandleCreate
    \/ HandleUpdate
    \/ HandleDestroy
    \/ HandleRetrieve
    \/ Reply

SpecPerm == InitRecipe /\ [][NextPerm]_vars

\* the answer says the request did what it asked
Succeeded(status) == status \in {200, 201, 204}

\* C17: a PATCH or DELETE on a recipe succeeds only if the requester is
\* authenticated and is the recipe's author; a request of an anonymous
\* requester with a method that is not safe is refused and changes nothing;
\* no request changes or removes a recipe whose author is not the requester.
C17_OwnerOrReadOnly ==
    [][(request.op \in {"create", "update", "destroy", "retrieve"} /\ response.status = 0)
       => /\ (request.method \in {"PATCH", "DELETE"} /\ Succeeded(response'.status))
                => /\ request.user \in users
                   /\ request.pk \in DOMAIN recipes
                   /\ recipes[request.pk].author = request.user
          /\ (request.user = Anonymous /\ request.method \notin SAFE_METHODS)
                => (response'.status = 401 /\ UNCHANGED stores)
          /\ \A pk \in DOMAIN recipes :
                recipes[pk].author # request.user
                => /\ pk \in DOMAIN recipes'
                   /\ recipes'[pk] = recipes[pk]
                   /\ TagsOf(recipeTags', pk) = TagsOf(recipeTags, pk)
                   /\ AmountsOf(amounts', pk) = AmountsOf(amounts, pk)
      ]_vars

\* A registered user asked to delete the recipe of another user and was
\* refused; the recipe is there.
C17_Witness ==
    /\ Done
    /\ request.op = "destroy"
    /\ request.user \in Users
    /\ request.pk \in DOMAIN recipes
    /\ recipes[request.pk].author # request.user
    /\ response.status = 403

\* ------------------------------------------------- subscribe: properties
\* a subscribe request of a registered user for another registered user
SubscribeToOther(method) ==
    /\ Pending("subscribe")
    /\ request.method = method
    /\ request.user \in users
    /\ request.target \in users
    /\ request.target # request.user

\* C18: for distinct users u (requester) and a (author), a subscribe POST
\* when the row Follow(a, u) exists and a subscribe DELETE when it does not
\* are answered 400 and leave the Follow store unchanged; the store never
\* holds more than one row per (author, user) pair.
C18_SubscribeErrors ==
    /\ \A k \in DOMAIN follows : follows[k] <= 1
    /\ [][/\ (SubscribeToOther("POST") /\ follows[<<request.target, request.user>>] > 0)
             => (response'.status = 400 /\ UNCHANGED stores)
          /\ (SubscribeToOther("DELETE") /\ follows[<<request.target, request.user>>] = 0)
             => (response'.status = 400 /\ UNCHANGED stores)
          /\ \A k \in DOMAIN follows : follows'[k] <= 1
         ]_vars

\* A second subscribe POST of one pair was refused while the pair in the
\* other direction is followed too.
C18_Witness ==
    /\ Done
    /\ request.op = "subscribe"
    /\ request.method = "POST"
    /\ request.user \in Users
    /\ request.target \in Users
    /\ request.target # request.user
    /\ response.status = 400
    /\ follows[<<request.target, request.user>>] = 1
    /\ follows[<<request.user, request.target>>] = 1

\* the body of the request has no key
BodyHasNoKey(p) ==
    /\ p.scalars = NoScalars
    /\ p.ingredients.kind = "absent"
    /\ p.tags.kind = "absent"
    /\ p.author = ""

\* C19: a PATCH of a recipe by its author with an empty request body is
\* answered with a validation error (400) and changes nothing in the recipe,
\* its tags or its amount rows.
C19_EmptyPatchFails ==
    [][(/\ Pending("update")
        /\ request.method = "PATCH"
        /\ ReachesSerializer
        /\ BodyHasNoKey(request.payload))
       => (response'.status = 400 /\ UNCHANGED stores)
      ]_vars

\* The author's PATCH with an empty body was refused.
C19_Witness ==
    /\ Done
    /\ request.op = "update"
    /\ request.method = "PATCH"
    /\ request.pk \in DOMAIN recipes
    /\ recipes[request.pk].author = request.user
    /\ BodyHasNoKey(request.payload)
    /\ response.status = 400
    /\ response.error = "errors"

IsEmptyList(v) == v.kind = "list" /\ v.items = <<>>

\* C20 as stated: a create or update whose "ingredients" list or "tags" list
\* is empty is answered with a validation error (400) and writes nothing, and
\* every recipe has at least one IngredientAmount row and at least one tag.
C20_AtLeastOneIngredientAndTag ==
    /\ \A pk \in DOMAIN recipes :
          AmountsOf(amounts, pk) # <<>> /\ TagsOf(recipeTags, pk) # {}
    /\ [][(/\ ReachesSerializer
           /\ \/ IsEmptyList(request.payload.ingredients)
              \/ IsEmptyList(request.payload.tags))
          => (response'.status = 400 /\ UNCHANGED stores)
         ]_vars

\* ------------------------------------------------- the flags and the rows
\* the pending request is a toggle `op` of user u on recipe pk
TogglePending(op, u, pk) ==
    /\ Pending(op)
    /\ request.user = u
    /\ request.pk = pk

\* C21: for a registered user u and a recipe r, is_favorited(u, r) is true
\* exactly when a Favorite row (u, r) exists: it becomes true by a successful
\* favorite POST of u on r, false by a successful favorite DELETE of u on r,
\* and no other request or delete changes it while u and r exist; the answer
\* of a retrieve carries that value. Likewise is_in_shopping_cart and Cart.
C21_FlagsFollowRows ==
    /\ \A u \in users, pk \in DOMAIN recipes :
          /\ GetIsFavorited(u, pk) = (favorites[<<u, pk>>] > 0)
          /\ GetIsInShoppingCart(u, pk) = (carts[<<u, pk>>] > 0)
    /\ (Done /\ request.op = "retrieve" /\ request.user \in users /\ response.status = 200)
          => /\ response.body.is_favorited = (favorites[<<request.user, request.pk>>] > 0)
             /\ response.body.is_in_shopping_cart = (carts[<<request.user, request.pk>>] > 0)
    /\ [][\A u \in Users, pk \in RecipePks :
             (u \in users' /\ pk \in DOMAIN recipes')
             => /\ GetIsFavorited(u, pk)'
                     = IF TogglePending("favorite", u, pk) /\ response'.status = 201
                       THEN TRUE
                       ELSE IF TogglePending("favorite", u, pk) /\ response'.status = 204
                       THEN FALSE
                       ELSE GetIsFavorited(u, pk)
                /\ GetIsInShoppingCart(u, pk)'
                     = IF TogglePending("shopping_cart", u, pk) /\ response'.status = 201
                       THEN TRUE
                       ELSE IF TogglePending("shopping_cart", u, pk) /\ response'.status = 204
                       THEN FALSE
                       ELSE GetIsInShoppingCart(u, pk)
         ]_vars

\* After a recipe was deleted, a user reads the other recipe: it is their
\* favorite and not in their cart, and it is in the cart of the other user.
C21_Witness ==
    /\ Done
    /\ request.op = "retrieve"
    /\ request.user \in users
    /\ response.status = 200
    /\ response.body.is_favorited
    /\ ~response.body.is_in_shopping_cart
    /\ \E u \in users : u # request.user /\ carts[<<u, request.pk>>] = 1
                                         /\ favorites[<<u, request.pk>>] = 0
    /\ \E pk \in RecipePks : pk \notin DOMAIN recipes

\* ------------------------------------------------------ recipe list filters
\* int(value) of a choice of BOOLEAN_CHOICES
IntOfChoice(value) == IF value = "1" THEN 1 ELSE 0

\* Recipe.objects.all(): every recipe once
AllRecipes == [pk \in DOMAIN recipes |-> 1]
\* Recipe.objects.none()
NoRecipes == [pk \in DOMAIN recipes |-> 0]
\* queryset.filter(<related>__user=user): the join yields a recipe once per
\* matching row of the related store
FilterRelated(queryset, store, user) ==
    [pk \in DOMAIN queryset |-> queryset[pk] * store[<<user, pk>>]]
\* queryset.exclude(<related>__user=user)
ExcludeRelated(queryset, store, user) ==
    [pk \in DOMAIN queryset |-> IF store[<<user, pk>>] > 0 THEN 0 ELSE queryset[pk]]

\* RecipeFilter.get_is_favorited
FilterIsFavoritedNoExclude(queryset, user, value) ==
    IF user = Anonymous
    THEN IF IntOfChoice(value) # 0 THEN NoRecipes ELSE queryset
    ELSE IF IntOfChoice(value) # 0
    THEN FilterRelated(queryset, favorites, user)
    ELSE queryset
FilterIsFavorited(queryset, user, value) ==
    IF user = Anonymous
    THEN IF IntOfChoice(value) # 0 THEN NoRecipes ELSE queryset
    ELSE IF IntOfChoice(value) # 0
    THEN FilterRelated(queryset, favorites, user)
    ELSE ExcludeRelated(queryset, favorites, user)

\* RecipeFilter.get_is_in_shopping_cart
FilterIsInShoppingCart(queryset, user, value) ==
    IF user = Anonymous
    THEN IF IntOfChoice(value) # 0 THEN NoRecipes ELSE queryset
    ELSE IF IntOfChoice(value) # 0
    THEN FilterRelated(queryset, carts, user)
    ELSE ExcludeRelated(queryset, carts, user)

\* RecipeFilter over the queryset of RecipeViewSet: each filter that is
\* given, one after the other
FilterQueryset(user, query) ==
    LET q1 == IF query.is_favorited = ""
              THEN AllRecipes
              ELSE FilterIsFavorited(AllRecipes, user, query.is_favorited)
    IN  IF query.is_in_shopping_cart = ""
        THEN q1
        ELSE FilterIsInShoppingCart(q1, user, query.is_in_shopping_cart)

\* GET /recipes/?is_favorited=..&is_in_shopping_cart=.. (a safe method)
HandleList ==
    /\ Pending("list")
    /\ response' = RespondBody(200, [NoBody EXCEPT !.results =
                                        FilterQueryset(request.user, request.query)])
    /\ UNCHANGED <<stores, request, proc>>

ListRequests ==
    {[Req("list", "GET", u, 0, NoUser, EmptyPayload) EXCEPT !.query =
         [is_favorited |-> f, is_in_shopping_cart |-> c]] :
        u \in Requesters, f \in {"", "0", "1"}, c \in {"", "0", "1"}}

SendList ==
    /\ Idle
    /\ \E req \in ToggleRequests \cup ListRequests : Send(req)

NextList ==
    \/ SendList
    \/ HandleFavorite
    \/ HandleShoppingCart
    \/ HandleList
    \/ Reply

\* Two published recipes, the favorite / shopping_cart toggles and the
\* filtered lists.
SpecList == Init /\ [][NextList]_vars

\* the flag asked for by a choice
Wanted(value) == value = "1"

\* C22: a recipe list filtered by is_favorited=1 holds exactly the recipes
\* whose is_favorited flag is true for the requester, each once, and by
\* is_favorited=0 exactly the others; for an anonymous requester, whose flags
\* are all false, that is none and all. The same for is_in_shopping_cart, and
\* for both filters together.
C22_FiltersAgreeWithFlags ==
    (Done /\ request.op = "list")
    => LET u == request.user
           q == request.query
           res == response.body.results
       IN  /\ DOMAIN res = DOMAIN recipes
           /\ \A pk \in DOMAIN recipes :
                 /\ res[pk] \in {0, 1}
                 /\ res[pk] = 1
                    <=> /\ q.is_favorited # ""
                              => GetIsFavorited(u, pk) = Wanted(q.is_favorited)
                        /\ q.is_in_shopping_cart # ""
                              => GetIsInShoppingCart(u, pk) = Wanted(q.is_in_shopping_cart)

\* A user who has one recipe as a favorite and the other in the cart asked
\* for the recipes that are not a favorite: the other one is the answer.
C22_Witness ==
    /\ Done
    /\ request.op = "list"
    /\ request.user \in Users
    /\ request.query = [is_favorited |-> "0", is_in_shopping_cart |-> ""]
    /\ favorites[<<request.user, 1>>] = 1
    /\ carts[<<request.user, 2>>] = 1
    /\ response.body.results = (1 :> 0) @@ (2 :> 1)

\* ------------------------------------------- the shopping list of a cart
\* The author edits the ingredients of a published recipe while the users
\* fill their carts and download their shopping lists.
EditRequests ==
    {Req("update", "PATCH", "u2", 1, NoUser, Payload(NoScalars, i, Absent)) :
        i \in {List(<<>>),
               List(<<[id |-> 2, amount |-> Whole(1)]>>),
               List(<<[id |-> 1, amount |-> Whole(1)], [id |-> 3, amount |-> Whole(2)]>>)}}

SendCartEdit ==
    /\ Idle
    /\ \E req \in {r \in ToggleRequests : r.op = "shopping_cart"}
                  \cup DownloadRequests \cup EditRequests :
          Send(req)

NextCartEdit ==
    \/ SendCartEdit
    \/ HandleShoppingCart
    \/ HandleDownloadShoppingCart
    \/ HandleUpdate
    \/ Reply

SpecCartEdit == InitRecipe /\ [][NextCartEdit]_vars

\* the recipes in the cart of user u
CartOf(u) == {pk \in DOMAIN recipes : carts[<<u, pk>>] > 0}

\* C23 as stated: download_shopping_cart is answered 400 exactly when the
\* cart of the requesting user holds no recipe, and with the attachment (200)
\* whenever it holds at least one.
C23_ErrorIffCartEmpty ==
    (Done /\ request.op = "download_shopping_cart" /\ request.user \in users)
    => /\ response.status = 400 <=> CartOf(request.user) = {}
       /\ response.status = 200 <=> CartOf(request.user) # {}

\* ------------------------------------------------- toggles: success path
\* the store with one row more / no row of key
WithRow(store, key) == [store EXCEPT ![key] = 1]
WithoutRow(store, key) == [store EXCEPT ![key] = 0]

\* a toggle of a registered user, and the store it works on
ToggleOf(op, method) ==
    /\ Pending(op)
    /\ request.method = method
    /\ request.user \in users

\* the success path and the 404 of one toggle on its store
TogglePath(op, store, storeAfter, others) ==
    LET k == <<request.user, request.pk>>
    IN  /\ (ToggleOf(op, "POST") /\ request.pk \in DOMAIN recipes /\ store[k] = 0)
           => /\ response'.status = 201
              /\ storeAfter = WithRow(store, k)
              /\ UNCHANGED others
        /\ (ToggleOf(op, "DELETE") /\ request.pk \in DOMAIN recipes /\ store[k] = 1)
           => /\ response'.status = 204
              /\ storeAfter = WithoutRow(store, k)
              /\ UNCHANGED others
        /\ ((ToggleOf(op, "POST") \/ ToggleOf(op, "DELETE")) /\ request.pk \notin DOMAIN recipes)
           => /\ response'.status = 404
              /\ UNCHANGED stores

\* a POST and the DELETE that follows it give the store back
RoundTrip(store) ==
    \A u \in users, pk \in DOMAIN recipes :
        store[<<u, pk>>] = 0
        => LET c == CreateObject(store, u, pk)
               d == DeleteObject(c.store, u, pk)
           IN  /\ c.status = 201
               /\ d.status = 204
               /\ d.store = store

IngredientsOf(name, unit) ==
    {i \in Ingredients : IngredientName[i] = name /\ IngredientUnit[i] = unit}

\* C25 as stated: the amount of every entry of a shopping list is the sum of
\* amount over the cart's IngredientAmount rows that share the entry's name
\* and the measurement unit shown for it; amounts in different units are
\* never added together.
C25_SameUnitSums ==
    (Done /\ request.op = "download_shopping_cart" /\ response.status = 200)
    => \A n \in DOMAIN response.body.shopping_list :
          LET entry == response.body.shopping_list[n]
          IN  entry.amount
                = CartSum(request.user, IngredientsOf(n, entry.units), Len(amounts))

\* --------------------------------------------- concurrent partial updates
\* Two requests PATCH recipe 1 as its author, each with a valid "ingredients"
\* list and nothing else. update runs in autocommit mode: its statements
\* interleave with those of the other request.
UpdatedPk == 1
UpdateLists ==
    {<<[id |-> 1, amount |-> Whole(1)]>>,
     <<[id |-> 2, amount |-> Whole(1)]>>,
     <<[id |-> 1, amount |-> Whole(2)], [id |-> 2, amount |-> Whole(1)]>>}
IdleUpdate == [pc |-> "idle", items |-> <<>>, status |-> 0]
NotAmounts == <<recipes, nextPk, recipeTags, favorites, carts, follows, users,
                request, response>>

\* the request passed the permission checks and validate()
UpdateBegin(w) ==
    /\ proc[w].pc = "idle"
    /\ \E items \in UpdateLists :
          /\ Validate("PATCH", Payload(NoScalars, List(items), Absent)).status = 0
          /\ proc' = [proc EXCEPT ![w] = [pc |-> "delete", items |-> items, status |-> 0]]
    /\ UNCHANGED <<amounts, NotAmounts>>

\* update: IngredientAmount.objects.filter(recipe=obj).delete()
UpdateDelete(w) ==
    /\ proc[w].pc = "delete"
    /\ amounts' = DeleteAmounts(amounts, UpdatedPk)
    /\ Goto(w, "insert")
    /\ UNCHANGED NotAmounts

\* update: self.create_ingredient_amount(objs=ingredients, recipe=obj). The
\* IntegrityError of a refused INSERT is caught nowhere: the answer is 500.
UpdateInsert(w) ==
    /\ proc[w].pc = "insert"
    /\ LET ins == BulkCreate(amounts, AmountRows(UpdatedPk, Parsed(proc[w].items)))
       IN  /\ amounts' = ins.store
           /\ IF ins.ok THEN Goto(w, "save") ELSE Finish(w, 500)
    /\ UNCHANGED NotAmounts

\* update: obj.save() with the fields it had, and the response
UpdateSave(w) ==
    /\ proc[w].pc = "save"
    /\ Finish(w, 200)
    /\ UNCHANGED <<amounts, NotAmounts>>

\* the response is sent
UpdateEnd(w) ==
    /\ proc[w].pc = "done"
    /\ proc' = [proc EXCEPT ![w] = IdleUpdate]
    /\ UNCHANGED <<amounts, NotAmounts>>

InitConcUpdate ==
    /\ recipes = TwoRecipes
    /\ nextPk = 3
    /\ recipeTags = {<<1, 1>>, <<2, 1>>}
    /\ amounts = AmountRows(1, <<[id |-> 1, amount |-> 1]>>)
                 \o AmountRows(2, <<[id |-> 2, amount |-> 1]>>)
    /\ favorites = EmptyPairs(Users, RecipePks)
    /\ carts = EmptyPairs(Users, RecipePks)
    /\ follows = EmptyPairs(Users, Users)
    /\ users = Users
    /\ request = NoRequest
    /\ response = NoResponse
    /\ proc = [w \in Workers |-> IdleUpdate]

NextConcUpdate ==
    \E w \in Workers :
        \/ UpdateBegin(w)
        \/ UpdateDelete(w)
        \/ UpdateInsert(w)
        \/ UpdateSave(w)
        \/ UpdateEnd(w)

SpecConcUpdate == InitConcUpdate /\ [][NextConcUpdate]_vars

\* C26 as stated: when two concurrent partial updates of one recipe, each
\* with an "ingredients" list, have both finished, neither has ended with an
\* unhandled uniqueness violation and the recipe's IngredientAmount rows are
\* the payload of one of the two: no mixture of both, and not no row.
C26_OnePayloadWins ==
    (\A w \in Workers : proc[w].pc = "done")
    => /\ \A w \in Workers : proc[w].status = 200
       /\ \E w \in Workers :
             AmountsOf(amounts, UpdatedPk) = AmountRows(UpdatedPk, Parsed(proc[w].items))

\* ------------------------------------------------------ the author of a recipe
\* C27: the author of a created recipe is the user who sent the create
\* request, whatever "author" the payload carries, and no request changes
\* the author of a recipe.
C27_AuthorIsCreator ==
    [][/\ (Pending("create") /\ response'.status = 201)
          => /\ nextPk \in DOMAIN recipes'
             /\ recipes'[nextPk].author = request.user
       /\ \A pk \in DOMAIN recipes :
             pk \in DOMAIN recipes' => recipes'[pk].author = recipes[pk].author
      ]_vars

\* A user created a recipe with the other user's id as "author" and then
\* edited it with that id again: the recipe is theirs.
C27_Witness ==
    /\ Done
    /\ request.op = "update"
    /\ request.method = "PATCH"
    /\ request.user \in Users
    /\ request.payload.author \in Users
    /\ request.payload.author # request.user
    /\ response.status = 200
    /\ recipes[request.pk].author = request.user

\* ------------------------------------------------- toggles: what they leave
\* a request of `op` changes at most the row of key in its store, and
\* nothing in `others`
OnlyRow(op, store, storeAfter, key, others) ==
    Pending(op)
    => /\ DOMAIN storeAfter = DOMAIN store
       /\ \A k \in DOMAIN store : k # key => storeAfter[k] = store[k]
       /\ UNCHANGED others

\* C28: a favorite POST / DELETE of user u on recipe r changes only the
\* Favorite row (u, r): the Cart rows, the Follow rows, every recipe and
\* every other Favorite row stay as they are; the same holds of
\* shopping_cart with the Cart row (u, r) and of subscribe with the Follow
\* row (author, u).
C28_TogglesAreIsolated ==
    [][/\ OnlyRow("favorite", favorites, favorites', <<request.user, request.pk>>,
                  <<recipes, nextPk, recipeTags, amounts, carts, follows, users>>)
       /\ OnlyRow("shopping_cart", carts, carts', <<request.user, request.pk>>,
                  <<recipes, nextPk, recipeTags, amounts, favorites, follows, users>>)
       /\ OnlyRow("subscribe", follows, follows', <<request.target, request.user>>,
                  <<recipes, nextPk, recipeTags, amounts, favorites, carts, users>>)
      ]_vars

\* A user took a recipe out of the cart; the favorite of that user on the
\* recipe, the other recipe in the cart, the cart of the other user and a
\* subscription are all still there.
C28_Witness ==
    /\ Done
    /\ request.op = "shopping_cart"
    /\ request.method = "DELETE"
    /\ request.user \in Users
    /\ response.status = 204
    /\ carts[<<request.user, request.pk>>] = 0
    /\ favorites[<<request.user, request.pk>>] = 1
    /\ \E pk \in DOMAIN recipes : carts[<<request.user, pk>>] = 1
    /\ \E u \in Users : u # request.user /\ carts[<<u, request.pk>>] = 1
    /\ \E a \in Users : follows[<<a, request.user>>] = 1

\* ----------------------------------------------------------- PUT on a recipe
\* C29: a PUT on a recipe is refused by has_permission for every requester,
\* the authenticated author of the recipe included (401 without a token, 403
\* with one), and changes nothing in the stores.
C29_PutIsDenied ==
    [][(Pending("update") /\ request.method = "PUT")
       => /\ ~HasPermission(request.method, request.user)
          /\ response'.status = Denied(request.user)
          /\ UNCHANGED stores
      ]_vars

\* The author sent a PUT with a complete payload for their own recipe and
\* was refused.
C29_Witness ==
    /\ Done
    /\ request.op = "update"
    /\ request.method = "PUT"
    /\ request.pk \in DOMAIN recipes
    /\ recipes[request.pk].author = request.user
    /\ request.payload = FullPayload
    /\ response.status = 403

====
